---------------------------- MODULE Spec2Model ----------------------------
(***************************************************************************)
(* Sales revenue prediction service: the domain entity, the boundary DTO,  *)
(* the artifact loader, the model repository, the use case and the HTTP    *)
(* endpoints with their lazily created process-wide repository.            *)
(***************************************************************************)
EXTENDS Integers, Sequences, FiniteSets, TLC

(***************************************************************************)
(* Bounds of the model.                                                    *)
(***************************************************************************)
NumThreads == 2
MaxExperience == 1
MaxSales == 0
MaxRevenue == 1
MaxDegree == 3
MaxRows == 2
MaxR2 == 100
MaxR2Below == 20
MaxFeatureValue == 2

(***************************************************************************)
(* Program constants.                                                      *)
(***************************************************************************)
MinSeasonalFactor == 1
MaxSeasonalFactor == 10
DefaultDegree == 2
NumFeatures == 3

(***************************************************************************)
(* Python floats: a number or NaN.  Every ordered comparison with NaN is   *)
(* false.                                                                  *)
(***************************************************************************)
NaN == [nan |-> TRUE, v |-> 0]
Float(i) == [nan |-> FALSE, v |-> i]
FloatLt(a, b) == ~a.nan /\ ~b.nan /\ a.v < b.v
FloatGe(a, b) == ~a.nan /\ ~b.nan /\ a.v >= b.v
FloatAdd(a, b) == IF a.nan \/ b.nan THEN NaN ELSE Float(a.v + b.v)
FloatMul(a, b) == IF a.nan \/ b.nan THEN NaN ELSE Float(a.v * b.v)

(***************************************************************************)
(* SalesPrediction.__post_init__: the four checks in source order.         *)
(***************************************************************************)
MsgExperience == "Experience months cannot be negative"
MsgSales == "Number of sales cannot be negative"
MsgSeasonal == "Seasonal factor must be between 1 and 10"
MsgRevenue == "Predicted revenue cannot be negative"

NoEntity == [experience_months |-> 0, number_of_sales |-> 0,
             seasonal_factor |-> 0, predicted_revenue |-> Float(0)]

RevenueIsNegative(r) == FloatLt(r, Float(0))

SalesPrediction(e, s, f, r) ==
  IF e < 0 THEN [ok |-> FALSE, error |-> MsgExperience, entity |-> NoEntity]
  ELSE IF s < 0 THEN [ok |-> FALSE, error |-> MsgSales, entity |-> NoEntity]
  ELSE IF ~(MinSeasonalFactor <= f /\ f <= MaxSeasonalFactor)
    THEN [ok |-> FALSE, error |-> MsgSeasonal, entity |-> NoEntity]
  ELSE IF RevenueIsNegative(r)
    THEN [ok |-> FALSE, error |-> MsgRevenue, entity |-> NoEntity]
  ELSE [ok |-> TRUE, error |-> "",
        entity |-> [experience_months |-> e, number_of_sales |-> s,
                    seasonal_factor |-> f, predicted_revenue |-> r]]

\* @dataclass(frozen=True): the generated __setattr__ raises
\* FrozenInstanceError, an AttributeError, and sets nothing.
FieldNames == {"experience_months", "number_of_sales", "seasonal_factor", "predicted_revenue"}

SetAttr(entity, name, value) == [raised |-> "FrozenInstanceError", entity |-> entity]

(***************************************************************************)
(* ModelEvaluator.interpret_r2.  An r2 is a float: NaN, or a decimal with  *)
(* two places held as its number of hundredths, so that 0.3, 0.7 and 0.9   *)
(* are 30, 70 and 90.                                                      *)
(***************************************************************************)
R2(hundredths) == [nan |-> FALSE, v |-> hundredths]

VeryPoor == "Very poor - model is worse than predicting the mean"
Poor == "Poor - model has weak predictive power"
Moderate == "Moderate - model captures some patterns"
Good == "Good - model captures most patterns"
Excellent == "Excellent - model has strong predictive power"

\* Comparisons that put each boundary value in the lower band.
InterpretR2Inclusive(r2) ==
  IF ~FloatLt(R2(0), r2) /\ ~r2.nan THEN VeryPoor
  ELSE IF ~FloatLt(R2(30), r2) /\ ~r2.nan THEN Poor
  ELSE IF ~FloatLt(R2(70), r2) /\ ~r2.nan THEN Moderate
  ELSE IF ~FloatLt(R2(90), r2) /\ ~r2.nan THEN Good
  ELSE Excellent

InterpretR2(r2) ==
  IF FloatLt(r2, R2(0)) THEN VeryPoor
  ELSE IF FloatLt(r2, R2(30)) THEN Poor
  ELSE IF FloatLt(r2, R2(70)) THEN Moderate
  ELSE IF FloatLt(r2, R2(90)) THEN Good
  ELSE Excellent

(***************************************************************************)
(* PredictionInput: the pydantic field constraints ge=0, ge=0, ge=1/le=10. *)
(***************************************************************************)
\* A seasonal_factor field declared ge=0 instead of ge=1.
SeasonalFactorFieldGe0(f) == f >= 0 /\ f <= 10

SeasonalFactorField(f) == f >= 1 /\ f <= 10

\* A number_of_sales field declared without ge=0.
PredictionInputUnboundedSales(e, s, f) == e >= 0 /\ SeasonalFactorField(f)

PredictionInput(e, s, f) == e >= 0 /\ s >= 0 /\ SeasonalFactorField(f)

(***************************************************************************)
(* PolynomialFeatures(degree, include_bias=False).transform on one row:    *)
(* the products over the combinations with replacement of the feature      *)
(* indices, for each total degree 1..degree, in enumeration order.         *)
(***************************************************************************)
RECURSIVE PrependAll(_, _)
PrependAll(i, combos) ==
  IF combos = << >> THEN << >>
  ELSE << <<i>> \o Head(combos) >> \o PrependAll(i, Tail(combos))

RECURSIVE CombosFrom(_, _, _)
CombosFrom(lo, n, k) ==
  IF k = 0 THEN << << >> >>
  ELSE IF lo > n THEN << >>
  ELSE PrependAll(lo, CombosFrom(lo, n, k - 1)) \o CombosFrom(lo + 1, n, k)

\* An enumeration that starts with the constant term and stops one degree
\* short.
RECURSIVE CombinationsFromZero(_, _, _)
CombinationsFromZero(n, k, degree) ==
  IF k > degree THEN << >>
  ELSE CombosFrom(1, n, k - 1) \o CombinationsFromZero(n, k + 1, degree)

RECURSIVE Combinations(_, _, _)
Combinations(n, k, degree) ==
  IF k > degree THEN << >>
  ELSE CombosFrom(1, n, k) \o Combinations(n, k + 1, degree)

RECURSIVE Monomial(_, _)
Monomial(x, combo) ==
  IF combo = << >> THEN 1 ELSE x[Head(combo)] * Monomial(x, Tail(combo))

Transform(transformer, x) ==
  LET combos == Combinations(transformer.n_features_in, 1, transformer.degree)
  IN [i \in 1..Len(combos) |-> Monomial(x, combos[i])]

(***************************************************************************)
(* PolynomialFeatures as an estimator.  A matrix X is its number of        *)
(* columns and its rows.  fit validates X (at least one row) and records   *)
(* the number of input features; transform and get_feature_names_out on an *)
(* estimator without that record raise NotFittedError, and transform       *)
(* validates X against it.                                                 *)
(***************************************************************************)
MsgEstimatorNotFitted == "This PolynomialFeatures instance is not fitted yet."
MsgNoSamples == "Found array with 0 sample(s) while a minimum of 1 is required."
MsgFeatureCount == "X has a different number of features than PolynomialFeatures is expecting."

PolynomialFeatures(degree) == [degree |-> degree]
EstimatorIsFitted(estimator) == "n_features_in" \in DOMAIN estimator

PolynomialFit(estimator, X) ==
  IF Len(X.rows) = 0
    THEN [raised |-> "ValueError", message |-> MsgNoSamples, estimator |-> estimator]
    ELSE [raised |-> "", message |-> "",
          estimator |-> [degree |-> estimator.degree, n_features_in |-> X.n]]

PolynomialTransform(estimator, X) ==
  IF ~EstimatorIsFitted(estimator)
    THEN [raised |-> "NotFittedError", message |-> MsgEstimatorNotFitted, value |-> << >>]
  ELSE IF Len(X.rows) = 0
    THEN [raised |-> "ValueError", message |-> MsgNoSamples, value |-> << >>]
  ELSE IF X.n # estimator.n_features_in
    THEN [raised |-> "ValueError", message |-> MsgFeatureCount, value |-> << >>]
  ELSE [raised |-> "", message |-> "",
        value |-> [i \in 1..Len(X.rows) |-> Transform(estimator, X.rows[i])]]

\* The name of an output feature is given by its row of powers_: the
\* exponent of each input feature in the monomial.
RECURSIVE Exponent(_, _)
Exponent(combo, feature) ==
  IF combo = << >> THEN 0
  ELSE (IF Head(combo) = feature THEN 1 ELSE 0) + Exponent(Tail(combo), feature)

PolynomialFeatureNames(estimator) ==
  IF ~EstimatorIsFitted(estimator)
    THEN [raised |-> "NotFittedError", message |-> MsgEstimatorNotFitted, value |-> << >>]
    ELSE LET combos == Combinations(estimator.n_features_in, 1, estimator.degree)
         IN [raised |-> "", message |-> "",
             value |-> [i \in 1..Len(combos) |->
                          [f \in 1..estimator.n_features_in |-> Exponent(combos[i], f)]]]

(***************************************************************************)
(* DataPreprocessor: __init__, fit, transform, fit_transform and           *)
(* get_feature_names_out.  fit stores the new PolynomialFeatures in        *)
(* self.transformer and then fits it.                                      *)
(***************************************************************************)
MsgTransformerNotFitted == "Transformer not fitted. Call fit() first."
NoTransformer == [type |-> "NoneType"]

DataPreprocessor(degree) == [degree |-> degree, transformer |-> NoTransformer]

PreprocessorFit(self, X) ==
  LET created == PolynomialFeatures(self.degree)
      fit == PolynomialFit(created, X)
  IN [raised |-> fit.raised, message |-> fit.message, value |-> << >>,
      self |-> [self EXCEPT !.transformer = fit.estimator]]

PreprocessorTransform(self, X) ==
  IF self.transformer = NoTransformer
    THEN [raised |-> "ValueError", message |-> MsgTransformerNotFitted, value |-> << >>,
          self |-> self]
    ELSE LET out == PolynomialTransform(self.transformer, X)
         IN [raised |-> out.raised, message |-> out.message, value |-> out.value,
             self |-> self]

PreprocessorFitTransform(self, X) ==
  LET fit == PreprocessorFit(self, X)
  IN IF fit.raised # "" THEN fit ELSE PreprocessorTransform(fit.self, X)

PreprocessorGetFeatureNamesOut(self) ==
  IF self.transformer = NoTransformer
    THEN [raised |-> "ValueError", message |-> MsgTransformerNotFitted, value |-> << >>,
          self |-> self]
    ELSE LET out == PolynomialFeatureNames(self.transformer)
         IN [raised |-> out.raised, message |-> out.message, value |-> out.value,
             self |-> self]

(***************************************************************************)
(* DataPreprocessor.validate_input.  A dict is the sequence of its         *)
(* (key, value) pairs in insertion order, the keys distinct.               *)
(***************************************************************************)
EXPECTED_FEATURES == <<"years_of_experience", "number_of_sales", "seasonal_factor">>
MsgMissing == "Missing required features"

Keys(data) == {data[i][1] : i \in 1..Len(data)}

RECURSIVE GetItem(_, _)
GetItem(data, key) ==
  IF Head(data)[1] = key THEN Head(data)[2] ELSE GetItem(Tail(data), key)

\* A row built from the values of the dict in its own order.
ValidateInputByPosition(data) ==
  LET missing == {EXPECTED_FEATURES[i] : i \in 1..Len(EXPECTED_FEATURES)} \ Keys(data)
  IN IF missing # {}
       THEN [raised |-> "ValueError", message |-> MsgMissing, missing |-> missing,
             value |-> << >>]
       ELSE [raised |-> "", message |-> "", missing |-> {},
             value |-> << [i \in 1..Len(data) |-> data[i][2]] >>]

ValidateInput(data) ==
  LET missing == {EXPECTED_FEATURES[i] : i \in 1..Len(EXPECTED_FEATURES)} \ Keys(data)
  IN IF missing # {}
       THEN [raised |-> "ValueError", message |-> MsgMissing, missing |-> missing,
             value |-> << >>]
       ELSE [raised |-> "", message |-> "", missing |-> {},
             value |-> << <<GetItem(data, "years_of_experience"),
                            GetItem(data, "number_of_sales"),
                            GetItem(data, "seasonal_factor")>> >>]

(***************************************************************************)
(* The object loaded as the regressor.  A fitted linear model computes     *)
(* intercept + coef . row and rejects a row whose length differs from the  *)
(* number of coefficients with a ValueError; an estimator that was never   *)
(* fitted raises NotFittedError, which is a ValueError and an              *)
(* AttributeError; an object with no predict method at all, such as a      *)
(* dict, raises AttributeError.                                            *)
(***************************************************************************)
HasPredict(model) == "fit_intercept" \in DOMAIN model
IsFitted(model) == "coef" \in DOMAIN model

MsgNoPredict == "'dict' object has no attribute 'predict'"
MsgNotFitted == "This LinearRegression instance is not fitted yet."
MsgFeatureMismatch == "Regressor input mismatch"

\* isinstance(e, ValueError), as `except ValueError` tests it.
IsValueError(raised) == raised \in {"ValueError", "NotFittedError"}

RECURSIVE Dot(_, _, _)
Dot(coef, row, i) ==
  IF i > Len(row) THEN Float(0)
  ELSE FloatAdd(FloatMul(coef[i], Float(row[i])), Dot(coef, row, i + 1))

RegressorPredict(model, row) ==
  IF ~HasPredict(model)
    THEN [raised |-> "AttributeError", message |-> MsgNoPredict, value |-> Float(0)]
  ELSE IF ~IsFitted(model)
    THEN [raised |-> "NotFittedError", message |-> MsgNotFitted, value |-> Float(0)]
  ELSE IF Len(row) # Len(model.coef)
    THEN [raised |-> "ValueError", message |-> MsgFeatureMismatch, value |-> Float(0)]
  ELSE [raised |-> "", message |-> "",
        value |-> FloatAdd(model.intercept, Dot(model.coef, row, 1))]

(***************************************************************************)
(* ModelRepository.predict: array, transform, model.predict(...)[0], float.*)
(***************************************************************************)
RepositoryPredict(repo, e, s, f) ==
  LET input_array == <<e, s, f>>
      input_transformed == Transform(repo.transformer, input_array)
  IN RegressorPredict(repo.model, input_transformed)


(***************************************************************************)
(* The artifact store.  A file name is a sequence of parts, so that the    *)
(* test for the '.joblib' suffix and its appending are computed.           *)
(***************************************************************************)
Suffix == ".joblib"
EndsWithSuffix(filename) == Len(filename) > 0 /\ filename[Len(filename)] = Suffix

\* A suffix appended whether or not the name has it.
WithSuffixAlways(filename) == filename \o <<Suffix>>

WithSuffix(filename) == IF ~EndsWithSuffix(filename) THEN filename \o <<Suffix>> ELSE filename

\* joblib.dump and joblib.load: the object is pickled into the file's bytes
\* and built again from them.
JoblibDump(model) == [format |-> "joblib", pickled |-> model]
JoblibLoad(data) == data.pickled

TransformerName == <<"polynomial_transformer">>
PredictorName == <<"revenue_model">>
MetadataName == <<"model_metadata">>

\* A load_model that returns None for a file that does not exist.
LoadModelOrNone(files, filename) ==
  LET filepath == WithSuffix(filename)
  IN IF filepath \notin DOMAIN files
       THEN [raised |-> "", value |-> <<"None">>]
       ELSE [raised |-> "", value |-> <<JoblibLoad(files[filepath])>>]

\* ModelLoader.load_model: FileNotFoundError unless the file exists.
LoadModel(files, filename) ==
  LET filepath == WithSuffix(filename)
  IN IF filepath \notin DOMAIN files
       THEN [raised |-> "FileNotFoundError", value |-> << >>]
       ELSE [raised |-> "", value |-> <<JoblibLoad(files[filepath])>>]

\* Path.mkdir(exist_ok=True) on the models directory: a directory is left
\* as it is, a missing one is created, a file in its place is an error.
Mkdir(kind) ==
  IF kind = "file" THEN [raised |-> "FileExistsError", kind |-> kind]
  ELSE [raised |-> "", kind |-> "dir"]

\* ModelLoader.save_model: mkdir, the suffix, joblib.dump; returns the path.
SaveModel(kind, files, model, filename) ==
  LET dir == Mkdir(kind)
      filepath == WithSuffix(filename)
  IN IF dir.raised # ""
       THEN [raised |-> dir.raised, kind |-> kind, files |-> files, value |-> << >>]
       ELSE [raised |-> "", kind |-> dir.kind,
             files |-> (filepath :> JoblibDump(model)) @@ files, value |-> filepath]

\* A load_all that falls back to default metadata when the metadata file is
\* missing.
LoadAllLenient(files) ==
  LET t == LoadModel(files, TransformerName)
      m == LoadModel(files, PredictorName)
      d == LoadModel(files, MetadataName)
  IN IF t.raised # "" THEN [raised |-> t.raised, value |-> << >>]
     ELSE IF m.raised # "" THEN [raised |-> m.raised, value |-> << >>]
     ELSE IF d.raised # ""
       THEN [raised |-> "", value |-> <<t.value[1], m.value[1], [model_type |-> "unknown"]>>]
     ELSE [raised |-> "", value |-> <<t.value[1], m.value[1], d.value[1]>>]

\* ModelLoader.load_all: the tuple is built left to right; the first load
\* that raises ends it.
LoadAll(files) ==
  LET t == LoadModel(files, TransformerName)
      m == LoadModel(files, PredictorName)
      d == LoadModel(files, MetadataName)
  IN IF t.raised # "" THEN [raised |-> t.raised, value |-> << >>]
     ELSE IF m.raised # "" THEN [raised |-> m.raised, value |-> << >>]
     ELSE IF d.raised # "" THEN [raised |-> d.raised, value |-> << >>]
     ELSE [raised |-> "", value |-> <<t.value[1], m.value[1], d.value[1]>>]

\* Python's None.
None == [is_none |-> TRUE]

\* ModelRepository.__init__ before the load: the loader, and None in the
\* three fields.
ModelRepositoryInit(loader_dir) ==
  [model_loader |-> [models_dir |-> loader_dir],
   transformer |-> None, model |-> None, metadata |-> None]

\* ModelRepository._load_model: the three fields are assigned together from
\* the tuple load_all returns; when load_all raises none is assigned.
LoadModelArtifacts(self, files) ==
  LET loaded == LoadAll(files)
  IN IF loaded.raised # "" THEN [raised |-> loaded.raised, self |-> self]
     ELSE [raised |-> "",
           self |-> [self EXCEPT !.transformer = loaded.value[1],
                                 !.model = loaded.value[2],
                                 !.metadata = loaded.value[3]]]

\* A constructor that swallows the exception of the load and returns the
\* instance as it is.
ModelRepositoryNewPartial(loader_dir, files) ==
  [raised |-> "",
   value |-> <<LoadModelArtifacts(ModelRepositoryInit(loader_dir), files).self>>]

\* ModelRepository(): __init__ ends with _load_model; an exception of the
\* load leaves no instance.
ModelRepositoryNew(loader_dir, files) ==
  LET out == LoadModelArtifacts(ModelRepositoryInit(loader_dir), files)
  IN IF out.raised # "" THEN [raised |-> out.raised, value |-> << >>]
     ELSE [raised |-> "", value |-> <<out.self>>]

\* A get_model_info that returns the three documented keys, with defaults
\* for those the metadata lacks.
RepositoryGetModelInfoDocumented(repo) ==
  [k \in {"model_type", "polynomial_degree", "features"} |->
     IF k \in DOMAIN repo.metadata THEN <<repo.metadata[k]>> ELSE << >>]

\* ModelRepository.get_model_info
RepositoryGetModelInfo(repo) == repo.metadata

(***************************************************************************)
(* Artifacts a training run can have left in the models directory.         *)
(***************************************************************************)
FittedTransformer == [degree |-> DefaultDegree, n_features_in |-> NumFeatures]

Ones(n) == [i \in 1..n |-> Float(1)]
RegressorFitted == [fit_intercept |-> TRUE, coef |-> Ones(9), intercept |-> Float(-5)]
RegressorNaN == [fit_intercept |-> TRUE, coef |-> Ones(9), intercept |-> NaN]
RegressorLinearOnly == [fit_intercept |-> TRUE, coef |-> Ones(3), intercept |-> Float(0)]
RegressorUnfitted == [fit_intercept |-> TRUE]

Metadata == [model_type |-> "LinearRegression", polynomial_degree |-> DefaultDegree,
             features |-> <<"years_of_experience", "number_of_sales", "seasonal_factor">>]

\* A metadata record written by another training script: other keys.
MetadataOther == [model_type |-> "Ridge", training_date |-> "2024-01-01"]

\* What revenue_model.joblib can hold: a regressor of one of the kinds
\* above, or another object saved under that name.
Regressors == {RegressorFitted, RegressorNaN, RegressorLinearOnly, RegressorUnfitted, Metadata}

DiskImages ==
  LET pick(name, contents) == {<< >>} \cup {<<WithSuffix(name), JoblibDump(c)>> : c \in contents}
      asFiles(entries) ==
        LET present == {e \in entries : e # << >>}
        IN [fp \in {e[1] : e \in present} |-> (CHOOSE e \in present : e[1] = fp)[2]]
  IN {asFiles({t, m, d}) : t \in pick(TransformerName, {FittedTransformer}),
                           m \in pick(PredictorName, Regressors),
                           d \in pick(MetadataName, {Metadata})}
     \cup {asFiles({t, m, d}) : t \in pick(TransformerName, {FittedTransformer}),
                                m \in pick(PredictorName, {RegressorFitted}),
                                d \in pick(MetadataName, {MetadataOther}) \ {<< >>}}

(***************************************************************************)
(* State.                                                                  *)
(***************************************************************************)
VARIABLES
  phase,              \* "importing" until main.py has run create_app, then "serving"
  storage,            \* the files of the models directory: file path -> content
  holder,             \* routes._model_repository: 0 for None, else an object of heap
  heap,               \* the ModelRepository instances constructed so far
  pc,                 \* per worker thread: where its request stands
  req,                \* per worker thread: the request it serves
  ref,                \* per worker thread: the repository its dependency returned
  res,                \* per worker thread: what repository.predict returned
  resp,               \* per worker thread: the response of its last request
  loadFailed,         \* a load of the artifacts has raised
  retried,            \* a request that arrived after a failed load has loaded again
  cand,               \* the arguments of a SalesPrediction(...) call
  made,               \* what that construction produced
  boundary,           \* what PredictionInput said of the same three fields
  assigned,           \* the last assignment to a field of the instance and its outcome
  models_dir_arg,     \* the models_dir argument of a ModelLoader(...) call
  fs,                 \* what each candidate path is on disk
  models_dir,         \* ModelLoader.models_dir after __init__
  storeCall,          \* the last save_model / load_model / load_all call and its outcome
  saved,              \* per name without suffix: the artifact last saved under it
  preprocessor,       \* a DataPreprocessor: its degree and its transformer
  prepCall,           \* the last call on the preprocessor and its outcome
  fitted,             \* a fit call on the preprocessor has completed successfully
  arg_data,           \* the argument of a validate_input call
  r2,                 \* the argument of an interpret_r2 call
  interpretation      \* what the call returned, "" before it

vars == <<phase, storage, holder, heap, pc, req, ref, res, resp, loadFailed, retried,
          cand, made, boundary, assigned, models_dir_arg, fs, models_dir, storeCall, saved,
          preprocessor, prepCall, fitted, arg_data, r2, interpretation>>

Threads == 1..NumThreads

ExperienceValues == -1..MaxExperience
SalesValues == -1..MaxSales
RequestExperience == {-1, 0, 1}
RequestSales == {-1, 0}
SeasonalValues == {MinSeasonalFactor - 1, MinSeasonalFactor,
                   MaxSeasonalFactor, MaxSeasonalFactor + 1}
RevenueValues == {NaN} \cup {Float(i) : i \in -1..MaxRevenue}

\* The request a worker serves, with what is recorded about it: whether it
\* arrived after a failed load, how often its get_model_repository call has
\* run the load so far, how often its execute call has invoked
\* repository.predict, and with which arguments.
NoRequest == [kind |-> "none", experience_months |-> 0, number_of_sales |-> 0,
              seasonal_factor |-> 0, afterFailure |-> FALSE, loads |-> 0,
              predicts |-> 0, args |-> << >>]
NoBody == [kind |-> "none"]
NoResponse == [code |-> 0, detail |-> "", body |-> NoBody]
Healthy == [code |-> 200, detail |-> "", body |-> [kind |-> "health", status |-> "healthy"]]

\* An output built with experience_months and number_of_sales exchanged.
PredictionOutputSwapped(entity) ==
  [kind |-> "prediction",
   predicted_revenue |-> entity.predicted_revenue,
   experience_months |-> entity.number_of_sales,
   number_of_sales |-> entity.experience_months,
   seasonal_factor |-> entity.seasonal_factor,
   model_info |-> "Polynomial Regression (degree=2)"]

\* PredictionOutput as execute builds it from the entity.
PredictionOutput(entity) ==
  [kind |-> "prediction",
   predicted_revenue |-> entity.predicted_revenue,
   experience_months |-> entity.experience_months,
   number_of_sales |-> entity.number_of_sales,
   seasonal_factor |-> entity.seasonal_factor,
   model_info |-> "Polynomial Regression (degree=2)"]

HttpError(code, detail) == [code |-> code, detail |-> detail, body |-> NoBody]

\* f'Prediction failed: {str(e)}'
PredictionFailed(message) ==
  IF message = MsgNoPredict
    THEN "Prediction failed: 'dict' object has no attribute 'predict'"
    ELSE "Prediction failed: "

ServiceIdle ==
  /\ phase = "importing"
  /\ holder = 0
  /\ heap = << >>
  /\ pc = [t \in Threads |-> "idle"]
  /\ req = [t \in Threads |-> NoRequest]
  /\ ref = [t \in Threads |-> 0]
  /\ res = [t \in Threads |-> Float(0)]
  /\ resp = [t \in Threads |-> NoResponse]
  /\ loadFailed = FALSE
  /\ retried = FALSE

NoCandidate == [experience_months |-> 0, number_of_sales |-> 0, seasonal_factor |-> 0,
                predicted_revenue |-> Float(0)]
NotMade == [state |-> "pending", ok |-> FALSE, error |-> "", entity |-> NoEntity]

(***************************************************************************)
(* ModelLoader.__init__ and _find_models_dir.  An argument is None, a str  *)
(* or a Path; Path('') is the path '.'.  Path.exists() is true of a        *)
(* directory and of a file alike.                                          *)
(***************************************************************************)
NoneArg == [type |-> "None", text |-> ""]
StrArg(text) == [type |-> "str", text |-> text]
PathArg(text) == [type |-> "Path", text |-> text]
Path(text) == IF text = "" THEN "." ELSE text

Truthy(arg) == arg.type = "Path" \/ (arg.type = "str" /\ arg.text # "")

CwdSavedModels == "saved_models"
DockerSavedModels == "/app/saved_models"
PackageSavedModels == "<package parent>/saved_models"
possible_paths == <<CwdSavedModels, DockerSavedModels, PackageSavedModels>>

\* A probe with is_dir() instead of exists().
ExistsAsDirectory(disk, path) == disk[path] = "dir"

Exists(disk, path) == disk[path] # "absent"

RECURSIVE FirstExisting(_, _)
FirstExisting(disk, paths) ==
  IF paths = << >> THEN Path("saved_models")
  ELSE IF Exists(disk, Head(paths)) THEN Head(paths)
  ELSE FirstExisting(disk, Tail(paths))

FindModelsDir(disk) == FirstExisting(disk, possible_paths)

ModelLoaderInit(arg, disk) ==
  IF Truthy(arg) THEN Path(arg.text) ELSE FindModelsDir(disk)

DirectoryArgs == {NoneArg, StrArg(""), StrArg("models"), PathArg(""), PathArg("models")}
EntryKinds == {"absent", "file", "dir"}
Disks == [{possible_paths[i] : i \in 1..Len(possible_paths)} -> EntryKinds]

Unresolved == "<unset>"
NoDisk == [p \in {possible_paths[i] : i \in 1..Len(possible_paths)} |-> "absent"]
LoaderIdle == models_dir_arg = NoneArg /\ fs = NoDisk /\ models_dir = Unresolved
NoAssignment == [name |-> "", raised |-> ""]
EntityIdle ==
  cand = NoCandidate /\ made = NotMade /\ boundary = "pending" /\ assigned = NoAssignment

NoCall == [op |-> "none", filename |-> << >>, raised |-> "", value |-> << >>]
StoreIdle == storeCall = NoCall /\ saved = << >>

NoMatrix == [n |-> 0, rows |-> << >>]
NoPrepCall == [op |-> "none", X |-> NoMatrix, raised |-> "", message |-> "", value |-> << >>]
PreprocessorIdle ==
  /\ preprocessor = DataPreprocessor(DefaultDegree) /\ prepCall = NoPrepCall
  /\ fitted = FALSE /\ arg_data = << >>

EvaluatorIdle == r2 = R2(0) /\ interpretation = ""

CoreIdle == StoreIdle /\ PreprocessorIdle /\ EvaluatorIdle

\* The service runs where ./saved_models is the models directory.
ServiceDisk == [NoDisk EXCEPT ![CwdSavedModels] = "dir"]

Init ==
  /\ ServiceIdle
  /\ storage \in DiskImages
  /\ EntityIdle
  /\ models_dir_arg = NoneArg /\ fs = ServiceDisk /\ models_dir = Unresolved
  /\ CoreIdle

serviceVars == <<phase, storage, holder, heap, pc, req, ref, res, resp, loadFailed, retried>>
entityVars == <<cand, made, boundary, assigned>>
loaderVars == <<models_dir_arg, fs, models_dir>>
storeVars == <<storeCall, saved>>
preprocessorVars == <<preprocessor, prepCall, fitted, arg_data>>
evaluatorVars == <<r2, interpretation>>
coreVars == <<storeVars, preprocessorVars, evaluatorVars>>

(***************************************************************************)
(* main.py: app = create_app().  Nothing is loaded.                        *)
(***************************************************************************)
CreateApp ==
  /\ phase = "importing"
  /\ phase' = "serving"
  /\ UNCHANGED <<storage, holder, heap, pc, req, ref, res, resp, loadFailed, retried>>
  /\ UNCHANGED <<entityVars, loaderVars, coreVars>>

Accept(t, kind, response) ==
  /\ phase = "serving"
  /\ pc[t] = "idle"
  /\ req' = [req EXCEPT ![t] = [NoRequest EXCEPT !.kind = kind, !.afterFailure = loadFailed]]
  /\ ref' = [ref EXCEPT ![t] = 0]
  /\ res' = [res EXCEPT ![t] = Float(0)]
  /\ resp' = [resp EXCEPT ![t] = response]

\* POST /api/v1/predict arrives: its dependencies are resolved first.
PostPredict(t) ==
  /\ Accept(t, "predict", NoResponse)
  /\ pc' = [pc EXCEPT ![t] = "get_repo"]
  /\ UNCHANGED <<phase, storage, holder, heap, loadFailed, retried>>
  /\ UNCHANGED <<entityVars, loaderVars, coreVars>>

\* GET /api/v1/model/info arrives.
GetModelInfoRequest(t) ==
  /\ Accept(t, "model_info", NoResponse)
  /\ pc' = [pc EXCEPT ![t] = "get_repo"]
  /\ UNCHANGED <<phase, storage, holder, heap, loadFailed, retried>>
  /\ UNCHANGED <<entityVars, loaderVars, coreVars>>

\* GET /health: health_check has no dependency.
HealthCheck(t) ==
  /\ Accept(t, "health", Healthy)
  /\ UNCHANGED <<phase, storage, holder, heap, pc, loadFailed, retried>>
  /\ UNCHANGED <<entityVars, loaderVars, coreVars>>

AfterDependency(t) == IF req[t].kind = "predict" THEN "validate" ELSE "info"

(***************************************************************************)
(* routes.get_model_repository, in the steps a worker thread takes: the    *)
(* test of the global, the construction and assignment, the return.        *)
(***************************************************************************)
GetModelRepository(t) ==
  /\ pc[t] = "get_repo"
  /\ IF holder = 0
       THEN /\ pc' = [pc EXCEPT ![t] = "construct"]
            /\ ref' = ref
       ELSE /\ pc' = [pc EXCEPT ![t] = AfterDependency(t)]
            /\ ref' = [ref EXCEPT ![t] = holder]
  /\ UNCHANGED <<phase, storage, holder, heap, req, res, resp, loadFailed, retried>>
  /\ UNCHANGED <<entityVars, loaderVars, coreVars>>

\* A construction that runs the load again when it raised.
ConstructRepositoryRetrying(t) ==
  /\ pc[t] = "construct"
  /\ LET new == ModelRepositoryNew(ModelLoaderInit(NoneArg, fs), storage)
     IN IF new.raised # ""
          THEN /\ loadFailed' = TRUE
               /\ req' = [req EXCEPT ![t].loads = @ + 1]
               /\ UNCHANGED <<holder, heap, pc, resp>>
          ELSE /\ heap' = Append(heap, new.value[1])
               /\ holder' = Len(heap) + 1
               /\ pc' = [pc EXCEPT ![t] = "return_repo"]
               /\ req' = [req EXCEPT ![t].loads = @ + 1]
               /\ UNCHANGED <<loadFailed, resp>>
  /\ retried' = (retried \/ req[t].afterFailure)
  /\ UNCHANGED <<phase, storage, ref, res>>
  /\ UNCHANGED <<entityVars, loaderVars, coreVars>>

\* _model_repository = ModelRepository(): an exception of the load leaves
\* the global None and ends the request with the server's 500.
ConstructRepository(t) ==
  /\ pc[t] = "construct"
  /\ LET new == ModelRepositoryNew(ModelLoaderInit(NoneArg, fs), storage)
     IN IF new.raised # ""
          THEN /\ loadFailed' = TRUE
               /\ resp' = [resp EXCEPT ![t] = HttpError(500, "Internal Server Error")]
               /\ pc' = [pc EXCEPT ![t] = "idle"]
               /\ req' = [req EXCEPT ![t].loads = 0]
               /\ UNCHANGED <<holder, heap>>
          ELSE /\ heap' = Append(heap, new.value[1])
               /\ holder' = Len(heap) + 1
               /\ pc' = [pc EXCEPT ![t] = "return_repo"]
               /\ req' = [req EXCEPT ![t].loads = @ + 1]
               /\ UNCHANGED <<loadFailed, resp>>
  /\ retried' = (retried \/ req[t].afterFailure)
  /\ UNCHANGED <<phase, storage, ref, res>>
  /\ UNCHANGED <<entityVars, loaderVars, coreVars>>

\* return _model_repository
ReturnRepository(t) ==
  /\ pc[t] = "return_repo"
  /\ ref' = [ref EXCEPT ![t] = holder]
  /\ pc' = [pc EXCEPT ![t] = AfterDependency(t)]
  /\ req' = [req EXCEPT ![t].loads = 0]
  /\ UNCHANGED <<phase, storage, holder, heap, res, resp, loadFailed, retried>>
  /\ UNCHANGED <<entityVars, loaderVars, coreVars>>

(***************************************************************************)
(* The body of POST /predict is validated as a PredictionInput; a body     *)
(* that fails is answered 422 and the endpoint is not called.              *)
(***************************************************************************)
ValidateBody(t) ==
  /\ pc[t] = "validate"
  /\ \E e \in RequestExperience, s \in RequestSales, f \in SeasonalValues :
       IF PredictionInput(e, s, f)
         THEN /\ req' = [req EXCEPT ![t] = [@ EXCEPT !.experience_months = e,
                                                     !.number_of_sales = s,
                                                     !.seasonal_factor = f]]
              /\ pc' = [pc EXCEPT ![t] = "execute"]
              /\ resp' = resp
         ELSE /\ resp' = [resp EXCEPT ![t] = HttpError(422, "Request validation failed")]
              /\ pc' = [pc EXCEPT ![t] = "idle"]
              /\ req' = req
  /\ UNCHANGED <<phase, storage, holder, heap, ref, res, loadFailed, retried>>
  /\ UNCHANGED <<entityVars, loaderVars, coreVars>>

\* A predict that keeps its last input in the repository's metadata.
ExecutePredictCaching(t) ==
  /\ pc[t] = "execute"
  /\ LET out == RepositoryPredict(heap[ref[t]], req[t].experience_months,
                                  req[t].number_of_sales, req[t].seasonal_factor)
     IN /\ res' = [res EXCEPT ![t] = out.value]
        /\ pc' = [pc EXCEPT ![t] = "entity"]
        /\ heap' = [heap EXCEPT ![ref[t]].metadata =
                      ("last_input" :> <<req[t].experience_months, req[t].number_of_sales,
                                         req[t].seasonal_factor>>) @@ @]
  /\ UNCHANGED <<phase, storage, holder, req, ref, resp, loadFailed, retried>>
  /\ UNCHANGED <<entityVars, loaderVars, coreVars>>

\* A predict whose input array is a buffer shared by the workers: it reads
\* the triple of whichever worker in predict wrote the buffer last.
ExecutePredictSharedBuffer(t) ==
  /\ pc[t] = "execute"
  /\ \E u \in {w \in Threads : pc[w] = "execute"} :
       LET out == RepositoryPredict(heap[ref[t]], req[u].experience_months,
                                    req[u].number_of_sales, req[u].seasonal_factor)
       IN IF out.raised # ""
            THEN /\ resp' = [resp EXCEPT ![t] =
                               IF IsValueError(out.raised)
                                 THEN HttpError(422, out.message)
                                 ELSE HttpError(500, PredictionFailed(out.message))]
                 /\ pc' = [pc EXCEPT ![t] = "idle"]
                 /\ ref' = [ref EXCEPT ![t] = 0]
                 /\ res' = res
            ELSE /\ res' = [res EXCEPT ![t] = out.value]
                 /\ pc' = [pc EXCEPT ![t] = "entity"]
                 /\ UNCHANGED <<resp, ref>>
  /\ UNCHANGED <<phase, storage, holder, heap, req, loadFailed, retried>>
  /\ UNCHANGED <<entityVars, loaderVars, coreVars>>

\* An execute that calls repository.predict a second time when the first
\* call raised.
ExecutePredictRetrying(t) ==
  /\ pc[t] = "execute"
  /\ LET input_data == req[t]
         out == RepositoryPredict(heap[ref[t]], input_data.experience_months,
                                  input_data.number_of_sales, input_data.seasonal_factor)
     IN /\ req' = [req EXCEPT ![t].predicts = IF out.raised # "" THEN @ + 2 ELSE @ + 1,
                              ![t].args = <<input_data.experience_months,
                                            input_data.number_of_sales,
                                            input_data.seasonal_factor>>]
        /\ IF out.raised # ""
             THEN /\ resp' = [resp EXCEPT ![t] =
                                IF IsValueError(out.raised)
                                  THEN HttpError(422, out.message)
                                  ELSE HttpError(500, PredictionFailed(out.message))]
                  /\ pc' = [pc EXCEPT ![t] = "idle"]
                  /\ ref' = [ref EXCEPT ![t] = 0]
                  /\ res' = res
             ELSE /\ res' = [res EXCEPT ![t] = out.value]
                  /\ pc' = [pc EXCEPT ![t] = "entity"]
                  /\ UNCHANGED <<resp, ref>>
  /\ UNCHANGED <<phase, storage, holder, heap, loadFailed, retried>>
  /\ UNCHANGED <<entityVars, loaderVars, coreVars>>

(***************************************************************************)
(* predict_revenue -> PredictRevenueUseCase.execute, first statement:      *)
(* model_repository.predict.  A ValueError becomes 422 with its message as *)
(* detail, any other exception 500 'Prediction failed: ...'.               *)
(***************************************************************************)
ExecutePredict(t) ==
  /\ pc[t] = "execute"
  /\ LET input_data == req[t]
         out == RepositoryPredict(heap[ref[t]], input_data.experience_months,
                                  input_data.number_of_sales, input_data.seasonal_factor)
     IN /\ req' = [req EXCEPT ![t].predicts = @ + 1,
                              ![t].args = <<input_data.experience_months,
                                            input_data.number_of_sales,
                                            input_data.seasonal_factor>>]
        /\ IF out.raised # ""
             THEN /\ resp' = [resp EXCEPT ![t] =
                                IF IsValueError(out.raised)
                                  THEN HttpError(422, out.message)
                                  ELSE HttpError(500, PredictionFailed(out.message))]
                  /\ pc' = [pc EXCEPT ![t] = "idle"]
                  /\ ref' = [ref EXCEPT ![t] = 0]
                  /\ res' = res
             ELSE /\ res' = [res EXCEPT ![t] = out.value]
                  /\ pc' = [pc EXCEPT ![t] = "entity"]
                  /\ UNCHANGED <<resp, ref>>
  /\ UNCHANGED <<phase, storage, holder, heap, loadFailed, retried>>
  /\ UNCHANGED <<entityVars, loaderVars, coreVars>>

(***************************************************************************)
(* execute, the rest: the SalesPrediction is built and projected into the  *)
(* PredictionOutput; its ValueError becomes 422 with the message.          *)
(***************************************************************************)
ExecuteEntity(t) ==
  /\ pc[t] = "entity"
  /\ LET prediction == SalesPrediction(req[t].experience_months, req[t].number_of_sales,
                                       req[t].seasonal_factor, res[t])
     IN IF prediction.ok
          THEN resp' = [resp EXCEPT ![t] = [code |-> 200, detail |-> "",
                                            body |-> PredictionOutput(prediction.entity)]]
          ELSE resp' = [resp EXCEPT ![t] = HttpError(422, prediction.error)]
  /\ pc' = [pc EXCEPT ![t] = "idle"]
  /\ ref' = [ref EXCEPT ![t] = 0]
  /\ UNCHANGED <<phase, storage, holder, heap, req, res, loadFailed, retried>>
  /\ UNCHANGED <<entityVars, loaderVars, coreVars>>

\* routes.get_model_info: the repository's metadata is the response.
ModelInfoEndpoint(t) ==
  /\ pc[t] = "info"
  /\ resp' = [resp EXCEPT ![t] = [code |-> 200, detail |-> "",
                                  body |-> [kind |-> "metadata",
                                            info |-> RepositoryGetModelInfo(heap[ref[t]])]]]
  /\ pc' = [pc EXCEPT ![t] = "idle"]
  /\ ref' = [ref EXCEPT ![t] = 0]
  /\ UNCHANGED <<phase, storage, holder, heap, req, res, loadFailed, retried>>
  /\ UNCHANGED <<entityVars, loaderVars, coreVars>>

Next ==
  \/ CreateApp
  \/ \E t \in Threads : PostPredict(t)
  \/ \E t \in Threads : GetModelInfoRequest(t)
  \/ \E t \in Threads : HealthCheck(t)
  \/ \E t \in Threads : GetModelRepository(t)
  \/ \E t \in Threads : ConstructRepository(t)
  \/ \E t \in Threads : ReturnRepository(t)
  \/ \E t \in Threads : ValidateBody(t)
  \/ \E t \in Threads : ExecutePredict(t)
  \/ \E t \in Threads : ExecuteEntity(t)
  \/ \E t \in Threads : ModelInfoEndpoint(t)

Spec == Init /\ [][Next]_vars

(***************************************************************************)
(* The entity on its own: any four arguments, then the construction.       *)
(***************************************************************************)
Candidates ==
  [experience_months : ExperienceValues, number_of_sales : SalesValues,
   seasonal_factor : SeasonalValues, predicted_revenue : RevenueValues]

InitEntity ==
  /\ ServiceIdle
  /\ storage = << >>
  /\ LoaderIdle
  /\ cand \in Candidates
  /\ made = NotMade
  /\ boundary = "pending"
  /\ assigned = NoAssignment
  /\ CoreIdle

\* PredictionInput(experience_months=..., number_of_sales=..., seasonal_factor=...)
\* on the three input fields of the candidate.
ValidateAtBoundary ==
  /\ boundary = "pending"
  /\ boundary' = IF PredictionInput(cand.experience_months, cand.number_of_sales,
                                    cand.seasonal_factor)
                   THEN "accepted" ELSE "rejected"
  /\ UNCHANGED <<cand, made, assigned, serviceVars, loaderVars, coreVars>>

Construct ==
  /\ made.state = "pending"
  /\ LET p == SalesPrediction(cand.experience_months, cand.number_of_sales,
                              cand.seasonal_factor, cand.predicted_revenue)
     IN made' = [state |-> "done", ok |-> p.ok, error |-> p.error, entity |-> p.entity]
  /\ UNCHANGED <<cand, boundary, assigned, serviceVars, loaderVars, coreVars>>

\* prediction.<name> = value on a constructed instance.
AssignableValues(name) ==
  IF name = "predicted_revenue" THEN RevenueValues
  ELSE IF name = "seasonal_factor" THEN SeasonalValues
  ELSE ExperienceValues

Assign(name, value) ==
  /\ made.state = "done" /\ made.ok
  /\ LET out == SetAttr(made.entity, name, value)
     IN /\ made' = [made EXCEPT !.entity = out.entity]
        /\ assigned' = [name |-> name, raised |-> out.raised]
  /\ UNCHANGED <<cand, boundary, serviceVars, loaderVars, coreVars>>

NextEntity ==
  \/ ValidateAtBoundary
  \/ Construct
  \/ \E name \in FieldNames : \E value \in AssignableValues(name) : Assign(name, value)

SpecEntity == InitEntity /\ [][NextEntity]_vars

(***************************************************************************)
(* The loader on its own: any argument on any disk, then __init__.         *)
(***************************************************************************)
InitLoader ==
  /\ ServiceIdle
  /\ storage = << >>
  /\ EntityIdle
  /\ models_dir_arg \in DirectoryArgs
  /\ fs \in Disks
  /\ models_dir = Unresolved
  /\ CoreIdle

NewModelLoader ==
  /\ models_dir = Unresolved
  /\ models_dir' = ModelLoaderInit(models_dir_arg, fs)
  /\ UNCHANGED <<models_dir_arg, fs, serviceVars, entityVars, coreVars>>

NextLoader == NewModelLoader

SpecLoader == InitLoader /\ [][NextLoader]_vars

(***************************************************************************)
(* The artifact store on its own: a ModelLoader() where ./saved_models is  *)
(* absent, a directory or a file, with nothing saved yet, and then any     *)
(* sequence of save_model, load_model and load_all calls.                  *)
(***************************************************************************)
OtherName == <<"candidate_model">>
StoreArtifacts == {FittedTransformer, RegressorFitted, Metadata}
StoreNames ==
  LET plain == {TransformerName, PredictorName, MetadataName, OtherName}
  IN plain \cup {n \o <<Suffix>> : n \in plain}

\* A file name without its final '.joblib', if it has one.
Stem(filename) ==
  IF Len(filename) > 0 /\ filename[Len(filename)] = ".joblib"
    THEN SubSeq(filename, 1, Len(filename) - 1)
    ELSE filename

runtimeVars == <<phase, holder, heap, pc, req, ref, res, resp, loadFailed, retried>>

InitStore ==
  /\ ServiceIdle
  /\ EntityIdle
  /\ storage = << >>
  /\ models_dir_arg = NoneArg
  /\ fs \in {[NoDisk EXCEPT ![CwdSavedModels] = k] : k \in EntryKinds}
  /\ models_dir = ModelLoaderInit(models_dir_arg, fs)
  /\ StoreIdle
  /\ PreprocessorIdle
  /\ EvaluatorIdle

SaveModelCall(model, filename) ==
  /\ LET out == SaveModel(fs[models_dir], storage, model, filename)
     IN /\ fs' = [fs EXCEPT ![models_dir] = out.kind]
        /\ storage' = out.files
        /\ storeCall' = [op |-> "save_model", filename |-> filename,
                         raised |-> out.raised, value |-> out.value]
        /\ saved' = IF out.raised = "" THEN (Stem(filename) :> model) @@ saved ELSE saved
  /\ UNCHANGED <<models_dir_arg, models_dir, runtimeVars, entityVars, preprocessorVars,
                 evaluatorVars>>

LoadModelCall(filename) ==
  /\ LET out == LoadModel(storage, filename)
     IN storeCall' = [op |-> "load_model", filename |-> filename,
                      raised |-> out.raised, value |-> out.value]
  /\ UNCHANGED <<saved, serviceVars, entityVars, loaderVars, preprocessorVars, evaluatorVars>>

LoadAllCall ==
  /\ LET out == LoadAll(storage)
     IN storeCall' = [op |-> "load_all", filename |-> << >>,
                      raised |-> out.raised, value |-> out.value]
  /\ UNCHANGED <<saved, serviceVars, entityVars, loaderVars, preprocessorVars, evaluatorVars>>

NextStore ==
  \/ \E model \in StoreArtifacts, filename \in StoreNames : SaveModelCall(model, filename)
  \/ \E filename \in StoreNames : LoadModelCall(filename)
  \/ LoadAllCall

SpecStore == InitStore /\ [][NextStore]_vars

(***************************************************************************)
(* The preprocessor on its own: DataPreprocessor(degree), then any         *)
(* sequence of fit, transform, fit_transform and get_feature_names_out     *)
(* calls on matrices of two or three columns and up to MaxRows rows.       *)
(***************************************************************************)
RowsOf(n) == IF n = NumFeatures THEN {<<1, 0, 1>>, <<2, 1, 10>>} ELSE {<<1, 2>>}
MatricesOf(n) ==
  {[n |-> n, rows |-> r] : r \in UNION {[1..m -> RowsOf(n)] : m \in 0..MaxRows}}
Matrices == MatricesOf(NumFeatures) \cup MatricesOf(NumFeatures - 1)

InitPreprocessor ==
  /\ ServiceIdle
  /\ storage = << >>
  /\ EntityIdle
  /\ LoaderIdle
  /\ StoreIdle
  /\ EvaluatorIdle
  /\ \E degree \in 1..MaxDegree : preprocessor = DataPreprocessor(degree)
  /\ prepCall = NoPrepCall
  /\ fitted = FALSE
  /\ arg_data = << >>

Called(op, X, out) ==
  /\ preprocessor' = out.self
  /\ prepCall' = [op |-> op, X |-> X, raised |-> out.raised, message |-> out.message,
                  value |-> out.value]
  /\ UNCHANGED <<arg_data, serviceVars, entityVars, loaderVars, storeVars, evaluatorVars>>

Fit(X) ==
  LET out == PreprocessorFit(preprocessor, X)
  IN Called("fit", X, out) /\ fitted' = (fitted \/ out.raised = "")

TransformCall(X) ==
  Called("transform", X, PreprocessorTransform(preprocessor, X)) /\ fitted' = fitted

FitTransform(X) ==
  LET out == PreprocessorFitTransform(preprocessor, X)
  IN Called("fit_transform", X, out) /\ fitted' = (fitted \/ out.raised = "")

GetFeatureNamesOut ==
  /\ Called("get_feature_names_out", NoMatrix, PreprocessorGetFeatureNamesOut(preprocessor))
  /\ fitted' = fitted

NextPreprocessor ==
  \/ \E X \in Matrices : Fit(X)
  \/ \E X \in Matrices : TransformCall(X)
  \/ \E X \in Matrices : FitTransform(X)
  \/ GetFeatureNamesOut

SpecPreprocessor == InitPreprocessor /\ [][NextPreprocessor]_vars

(***************************************************************************)
(* validate_input on its own: any dict of up to four entries over the      *)
(* three expected keys and one other key, in every insertion order, with   *)
(* values 1..MaxFeatureValue, then the call.                               *)
(***************************************************************************)
DictKeys == {"years_of_experience", "number_of_sales", "seasonal_factor", "region"}
Dicts ==
  {d \in UNION {[1..n -> DictKeys \X (1..MaxFeatureValue)] : n \in 0..Cardinality(DictKeys)} :
     \A i, j \in 1..Len(d) : i # j => d[i][1] # d[j][1]}

InitValidateInput ==
  /\ ServiceIdle
  /\ storage = << >>
  /\ EntityIdle
  /\ LoaderIdle
  /\ StoreIdle
  /\ EvaluatorIdle
  /\ preprocessor = DataPreprocessor(DefaultDegree)
  /\ prepCall = NoPrepCall
  /\ fitted = FALSE
  /\ arg_data \in Dicts

ValidateInputCall ==
  /\ prepCall.op = "none"
  /\ LET out == ValidateInput(arg_data)
     IN prepCall' = [op |-> "validate_input", X |-> NoMatrix,
                     raised |-> out.raised, message |-> out.message,
                     missing |-> out.missing, value |-> out.value]
  /\ UNCHANGED <<preprocessor, fitted, arg_data>>
  /\ UNCHANGED <<serviceVars, entityVars, loaderVars, storeVars, evaluatorVars>>

NextValidateInput == ValidateInputCall

SpecValidateInput == InitValidateInput /\ [][NextValidateInput]_vars

(***************************************************************************)
(* The evaluator on its own: interpret_r2 on any r2 from -MaxR2Below to    *)
(* MaxR2 hundredths, or NaN, which r2_score returns for less than two      *)
(* samples.                                                                *)
(***************************************************************************)
R2Values == {NaN} \cup {R2(h) : h \in (0 - MaxR2Below)..MaxR2}

InitEvaluator ==
  /\ ServiceIdle
  /\ storage = << >>
  /\ EntityIdle
  /\ LoaderIdle
  /\ StoreIdle
  /\ PreprocessorIdle
  /\ r2 \in R2Values
  /\ interpretation = ""

Interpret ==
  /\ interpretation = ""
  /\ interpretation' = InterpretR2(r2)
  /\ UNCHANGED <<r2, serviceVars, entityVars, loaderVars, storeVars, preprocessorVars>>

NextEvaluator == Interpret

SpecEvaluator == InitEvaluator /\ [][NextEvaluator]_vars

(***************************************************************************)
(* Properties.                                                             *)
(***************************************************************************)
InBounds(e, s, f) == e >= 0 /\ s >= 0 /\ f \in 1..10

\* The messages in the order of the checks, and which checks a candidate fails.
MessageOrder == <<MsgExperience, MsgSales, MsgSeasonal, MsgRevenue>>
Violated(c) ==
  {i \in 1..4 : \/ i = 1 /\ c.experience_months < 0
                \/ i = 2 /\ c.number_of_sales < 0
                \/ i = 3 /\ c.seasonal_factor \notin 1..10
                \/ i = 4 /\ ~FloatGe(c.predicted_revenue, Float(0))}
FirstViolated(c) == CHOOSE i \in Violated(c) : \A j \in Violated(c) : i <= j

\* C1: a construction succeeds if and only if experience_months >= 0,
\* number_of_sales >= 0, 1 <= seasonal_factor <= 10 and predicted_revenue >= 0;
\* otherwise it fails with the message of the first violated invariant, in
\* the order experience, sales, seasonal factor, revenue, and no instance is
\* produced.
C1_ConstructsIffAllInvariants ==
  made.state = "done" =>
    /\ made.ok <=> (Violated(cand) = {})
    /\ ~made.ok => /\ Violated(cand) # {}
                   /\ made.error = MessageOrder[FirstViolated(cand)]
                   /\ made.entity = NoEntity

\* C1 on the revenues that are numbers: there the construction succeeds
\* exactly when no invariant is violated and reports the first violated one.
C1_OnNumbers ==
  (made.state = "done" /\ ~cand.predicted_revenue.nan) =>
    /\ made.ok <=> (Violated(cand) = {})
    /\ ~made.ok => /\ made.error = MessageOrder[FirstViolated(cand)]
                   /\ made.entity = NoEntity
    /\ made.ok => made.entity = cand

\* C2: repository.predict is never called with a triple that violates a
\* bound: a worker that is about to call it, or has called it, holds a
\* triple inside the bounds, the body having been validated before.
C2_PredictOnlyInBounds ==
  \A t \in Threads :
    pc[t] \in {"execute", "entity"} =>
      InBounds(req[t].experience_months, req[t].number_of_sales, req[t].seasonal_factor)

\* Reached: one request was rejected at the boundary while another, on the
\* loaded repository, has had its prediction computed.
C2_Witness ==
  \E t, u \in Threads :
    /\ resp[t] = HttpError(422, "Request validation failed")
    /\ pc[t] = "idle" /\ holder # 0
    /\ pc[u] = "entity"

IsPrediction(r) == r.code = 200 /\ r.body.kind = "prediction"

\* C3: every successful prediction carries predicted_revenue >= 0 and inputs
\* inside their bounds, and a negative value returned by the regressor ends
\* the call with the error 'Predicted revenue cannot be negative'.
C3_SuccessMeansNonNegative ==
  \A t \in Threads :
    /\ IsPrediction(resp[t]) =>
         /\ FloatGe(resp[t].body.predicted_revenue, Float(0))
         /\ InBounds(resp[t].body.experience_months, resp[t].body.number_of_sales,
                     resp[t].body.seasonal_factor)
    /\ (pc[t] = "idle" /\ req[t].kind = "predict" /\ resp[t].code # 0
        /\ FloatLt(res[t], Float(0))) => resp[t] = HttpError(422, MsgRevenue)

\* C4: for a valid input and a non-negative value returned by the
\* repository, execute returns an output that echoes the three inputs
\* unchanged and carries exactly the returned value.
C4_EchoesInputAndRevenue ==
  [][\A t \in Threads :
       (pc[t] = "entity" /\ pc'[t] # "entity" /\ FloatGe(res[t], Float(0))) =>
         /\ resp'[t].code = 200
         /\ resp'[t].body.kind = "prediction"
         /\ resp'[t].body.experience_months = req[t].experience_months
         /\ resp'[t].body.number_of_sales = req[t].number_of_sales
         /\ resp'[t].body.seasonal_factor = req[t].seasonal_factor
         /\ resp'[t].body.predicted_revenue = res[t]]_vars

\* Reached: a request with experience 1, sales 0 answered with a positive
\* revenue, the one the repository returned.
C4_Witness ==
  \E t \in Threads :
    /\ IsPrediction(resp[t])
    /\ req[t].experience_months = 1 /\ req[t].number_of_sales = 0
    /\ resp[t].body.experience_months = 1
    /\ resp[t].body.predicted_revenue = res[t]
    /\ FloatGe(res[t], Float(1))

\* C5: over any interleaving of requests at most one ModelRepository is ever
\* constructed, and that one instance serves every request.
C5_OneRepositoryEver ==
  /\ Len(heap) <= 1
  /\ \A t \in Threads : ref[t] # 0 => ref[t] = 1

\* C6: predict and get_model_info leave the shared state unchanged: every
\* repository keeps the contents it was constructed with, and a step of
\* either call writes neither the holder, nor an instance, nor the files.
C6_CallsLeaveSharedStateUnchanged ==
  [][/\ \A i \in 1..Len(heap) : Len(heap') >= i /\ heap'[i] = heap[i]
     /\ \A t \in Threads :
          (pc[t] \in {"execute", "info"} /\ pc'[t] # pc[t]) =>
            (holder' = holder /\ heap' = heap /\ storage' = storage)]_vars

\* Reached: two workers have both called predict on a loaded repository.
C6_Witness ==
  \E t, u \in Threads :
    /\ t # u
    /\ pc[t] = "entity" /\ pc[u] = "entity"
    /\ holder # 0

SameTriple(a, b) ==
  /\ a.experience_months = b.experience_months
  /\ a.number_of_sales = b.number_of_sales
  /\ a.seasonal_factor = b.seasonal_factor

ArtifactNames == {TransformerName, PredictorName, MetadataName}
ArtifactMissing == \E n \in ArtifactNames : WithSuffix(n) \notin DOMAIN storage

\* C8 as claimed: with an artifact missing the service never is started and
\* answering (the health check reporting 'healthy') with nothing loaded.
C8_NeverHealthyUnloaded ==
  ~(/\ ArtifactMissing
    /\ phase = "serving"
    /\ holder = 0
    /\ \E t \in Threads : resp[t] = Healthy)

\* C8, amended: with an artifact missing no repository is ever installed and
\* the only request answered with success is the health check; predict and
\* model_info requests end with the server error.
C8_NoAnswerWithoutArtifacts ==
  ArtifactMissing =>
    /\ holder = 0 /\ heap = << >>
    /\ \A t \in Threads :
         /\ resp[t].code = 200 => resp[t] = Healthy
         /\ (pc[t] = "idle" /\ req[t].kind \in {"predict", "model_info"}
             /\ resp[t].code # 0) => resp[t].code = 500

\* Reached: an artifact is missing, one request was refused with the server
\* error and the health check answers 'healthy'.
C8_Witness ==
  /\ ArtifactMissing
  /\ \E t, u \in Threads :
       /\ resp[t] = Healthy
       /\ resp[u].code = 500 /\ req[u].kind = "predict"

\* C9 as claimed: once a load has failed, no later request loads again.
C9_NeverLoadsAgain == ~retried

\* C9, amended: a load is not retried within the request that ran it, and
\* its failure is surfaced to that request as the server error, leaving no
\* repository installed.
C9_NoRetryWithinRequest ==
  \A t \in Threads :
    /\ req[t].loads <= 1
    /\ (pc[t] = "idle" /\ req[t].kind \in {"predict", "model_info"}
        /\ resp[t].code # 0 /\ holder = 0) =>
          /\ resp[t] = HttpError(500, "Internal Server Error")
          /\ loadFailed

\* Reached: a request that arrived after a failed load has run the load
\* again.
C9_Witness == retried /\ loadFailed /\ holder = 0

Candidate(i) == possible_paths[i]
FirstDirectory ==
  LET dirs == {i \in 1..3 : fs[Candidate(i)] = "dir"}
  IN IF dirs = {} THEN "saved_models"
     ELSE Candidate(CHOOSE i \in dirs : \A j \in dirs : i <= j)
FirstEntry ==
  LET found == {i \in 1..3 : fs[Candidate(i)] \in {"file", "dir"}}
  IN IF found = {} THEN "saved_models"
     ELSE Candidate(CHOOSE i \in found : \A j \in found : i <= j)

Resolved(filename) == Stem(filename) \o <<".joblib">>

\* C11: load_model(name) raises FileNotFoundError exactly when the file
\* <models_dir>/<name>.joblib does not exist, and neither it nor load_all
\* creates or changes anything in storage; load_all on a store where nothing
\* was saved raises FileNotFoundError and returns no tuple, not even a
\* partial one.
C11_LoadRaisesIffAbsent ==
  [][/\ storeCall'.op = "load_model" =>
          /\ storage' = storage /\ fs' = fs
          /\ storeCall'.raised \in {"", "FileNotFoundError"}
          /\ (storeCall'.raised = "FileNotFoundError") <=>
               (Resolved(storeCall'.filename) \notin DOMAIN storage)
          /\ (storeCall'.raised # "") => storeCall'.value = << >>
     /\ storeCall'.op = "load_all" =>
          /\ storage' = storage /\ fs' = fs
          /\ (saved = << >>) => /\ storeCall'.raised = "FileNotFoundError"
                                /\ storeCall'.value = << >>
          /\ (storeCall'.raised # "") => storeCall'.value = << >>]_vars

\* Reached: with the transformer saved and the regressor not, load_model of
\* the regressor has raised FileNotFoundError, and the directory holds the
\* one file it held before.
C11_Witness ==
  /\ storeCall.op = "load_model" /\ storeCall.filename = PredictorName
  /\ storeCall.raised = "FileNotFoundError"
  /\ DOMAIN storage = {TransformerName \o <<".joblib">>}

\* C12: after save_model(x, n), load_model(n) returns x, with or without the
\* '.joblib' suffix in either call; the artifact returned is the one saved
\* last under that name, whatever was saved under other names.
C12_RoundTrip ==
  /\ (storeCall.op = "load_model" /\ Stem(storeCall.filename) \in DOMAIN saved) =>
        /\ storeCall.raised = ""
        /\ storeCall.value = <<saved[Stem(storeCall.filename)]>>
  /\ (storeCall.op = "save_model" /\ storeCall.raised = "") =>
        /\ storeCall.value = Resolved(storeCall.filename)
        /\ saved[Stem(storeCall.filename)] = JoblibLoad(storage[storeCall.value])

\* Reached: load_model('revenue_model.joblib') returns the regressor, the
\* artifact last saved at that location, while the metadata is what was
\* saved last under each of the other names.
C12_Witness ==
  /\ storeCall.op = "load_model" /\ storeCall.filename = PredictorName \o <<".joblib">>
  /\ storeCall.value = <<RegressorFitted>>
  /\ DOMAIN saved = {TransformerName, PredictorName, MetadataName, OtherName}
  /\ \A n \in DOMAIN saved : n # PredictorName => saved[n] = Metadata

\* The regressor takes rows of the length the transformer produces.
Matched(repo) ==
  IsFitted(repo.model) =>
    Len(repo.model.coef) =
      Len(Combinations(repo.transformer.n_features_in, 1, repo.transformer.degree))

\* C13: a transformer and a regressor whose dimensions do not match are a
\* fatal configuration error: no ModelRepository is ever constructed from
\* such a pair, and no caller is answered with the mismatch as a validation
\* error of their request.
C13_MismatchIsFatal ==
  /\ \A i \in 1..Len(heap) : Matched(heap[i])
  /\ \A t \in Threads : resp[t] # HttpError(422, MsgFeatureMismatch)

\* C14: a failure raised inside the transformer or the regressor during
\* predict is answered 500 'Prediction failed', whatever the exception, and
\* never 422 nor a successful response.
C14_FailureInsidePredictIs500 ==
  [][\A t \in Threads :
       LET out == RepositoryPredict(heap[ref[t]], req[t].experience_months,
                                    req[t].number_of_sales, req[t].seasonal_factor)
       IN (pc[t] = "execute" /\ pc'[t] # "execute" /\ out.raised # "") =>
            resp'[t] = HttpError(500, PredictionFailed(out.message))]_vars

NotFittedFailure(call) ==
  call.raised = "ValueError" /\ call.message = "Transformer not fitted. Call fit() first."

\* C15: as long as no fit call on the preprocessor has completed
\* successfully, also after one that raised, transform and
\* get_feature_names_out fail with ValueError 'Transformer not fitted. Call
\* fit() first.'; once a fit has completed they never again fail for want of
\* a fit: get_feature_names_out succeeds, and so does transform on a matrix
\* that has rows.
C15_NotFittedUntilFitSucceeds ==
  prepCall.op \in {"transform", "get_feature_names_out"} =>
    /\ ~fitted => NotFittedFailure(prepCall)
    /\ fitted => /\ ~NotFittedFailure(prepCall)
                 /\ prepCall.raised # "NotFittedError"
                 /\ prepCall.op = "get_feature_names_out" => prepCall.raised = ""

RECURSIVE Binomial(_, _)
Binomial(n, k) ==
  IF k = 0 \/ k = n THEN 1 ELSE Binomial(n - 1, k - 1) + Binomial(n - 1, k)

\* C16: fit_transform on m rows of 3 features at degree d returns m rows of
\* C(3 + d, d) - 1 columns, 9 at degree 2, and get_feature_names_out returns
\* a list of that length.
C16_ShapeOfFitTransform ==
  LET d == preprocessor.degree
      columns == Binomial(NumFeatures + d, d) - 1
  IN /\ (prepCall.op = "fit_transform" /\ prepCall.X.n = 3 /\ Len(prepCall.X.rows) > 0) =>
          /\ prepCall.raised = ""
          /\ Len(prepCall.value) = Len(prepCall.X.rows)
          /\ \A i \in 1..Len(prepCall.value) : Len(prepCall.value[i]) = columns
          /\ d = 2 => columns = 9
     /\ (prepCall.op = "get_feature_names_out" /\ prepCall.raised = ""
         /\ preprocessor.transformer.n_features_in = 3) => Len(prepCall.value) = columns

\* Reached: fit_transform at degree 2 on two rows of three features has
\* returned two rows, the second being the nine monomials of (2, 1, 10).
C16_Witness ==
  /\ prepCall.op = "fit_transform" /\ preprocessor.degree = 2
  /\ prepCall.X.rows = << <<1, 0, 1>>, <<2, 1, 10>> >>
  /\ Len(prepCall.value) = 2
  /\ prepCall.value[2] = <<2, 1, 10, 4, 2, 20, 1, 10, 100>>

Triple(r) == <<r.experience_months, r.number_of_sales, r.seasonal_factor>>

\* C17: each execute call invokes repository.predict exactly once, with the
\* three values of its input: not before the call is reached, once from
\* then on, whether the call ends with an output, with the entity's error
\* or with an exception of predict itself.
C17_PredictCalledOnce ==
  \A t \in Threads :
    /\ req[t].predicts <= 1
    /\ req[t].predicts = 1 => req[t].args = Triple(req[t])
    /\ pc[t] \in {"get_repo", "construct", "return_repo", "validate", "execute"} =>
         req[t].predicts = 0
    /\ pc[t] = "entity" => req[t].predicts = 1
    /\ (pc[t] = "idle" /\ req[t].kind = "predict" /\ resp[t].code # 0
        /\ resp[t] # HttpError(422, "Request validation failed")
        /\ resp[t] # HttpError(500, "Internal Server Error")) => req[t].predicts = 1

\* Reached: one execute call has ended with the entity's error for the
\* revenue -3 of the input (0, 0, 1), another with an output, and each has
\* invoked repository.predict once.
C17_Witness ==
  \E t, u \in Threads :
    /\ pc[t] = "idle" /\ resp[t] = HttpError(422, MsgRevenue)
    /\ req[t].predicts = 1 /\ req[t].args = <<0, 0, 1>>
    /\ pc[u] = "idle" /\ IsPrediction(resp[u])
    /\ req[u].predicts = 1 /\ req[u].args = Triple(req[u])

StoredMetadata == JoblibLoad(storage[MetadataName \o <<".joblib">>])

\* C18: every answer of model_info is the metadata exactly as it was
\* loaded from the store, key for key (model_type, polynomial_degree and
\* features when the stored record has them), so all answers are the same
\* mapping, whatever predict calls were made before.
C18_ModelInfoIsStoredMetadata ==
  \A t \in Threads :
    (resp[t].code = 200 /\ resp[t].body.kind = "metadata") =>
      /\ resp[t].body.info = StoredMetadata
      /\ \A k \in {"model_type", "polynomial_degree", "features"} :
           k \in DOMAIN StoredMetadata =>
             (k \in DOMAIN resp[t].body.info /\ resp[t].body.info[k] = StoredMetadata[k])
      /\ \A u \in Threads :
           (resp[u].code = 200 /\ resp[u].body.kind = "metadata") =>
             resp[u].body.info = resp[t].body.info

\* Reached: a worker has answered model_info with the stored record and
\* its three keys, while another worker is past its predict call.
C18_Witness ==
  \E t, u \in Threads :
    /\ resp[t].code = 200 /\ resp[t].body.kind = "metadata"
    /\ resp[t].body.info = Metadata
    /\ resp[t].body.info.polynomial_degree = 2
    /\ Len(resp[t].body.info.features) = 3
    /\ pc[u] = "entity" /\ req[u].predicts = 1

\* The bands by the claim's names.
Band(text) ==
  CASE text = VeryPoor -> "worse than baseline"
    [] text = Poor -> "poor"
    [] text = Moderate -> "moderate"
    [] text = Good -> "good"
    [] text = Excellent -> "excellent"
    [] OTHER -> "none"

\* C19: interpret_r2 returns one of the five bands for every r2: worse than
\* baseline for r2 < 0, poor for 0 <= r2 < 0.3, moderate for 0.3 <= r2 < 0.7,
\* good for 0.7 <= r2 < 0.9 and excellent for r2 >= 0.9, each boundary value
\* falling in the higher band.
C19_BandsOfR2 ==
  interpretation # "" =>
    /\ Band(interpretation) # "none"
    /\ ~r2.nan =>
         /\ r2.v < 0 => Band(interpretation) = "worse than baseline"
         /\ (0 <= r2.v /\ r2.v < 30) => Band(interpretation) = "poor"
         /\ (30 <= r2.v /\ r2.v < 70) => Band(interpretation) = "moderate"
         /\ (70 <= r2.v /\ r2.v < 90) => Band(interpretation) = "good"
         /\ r2.v >= 90 => Band(interpretation) = "excellent"

\* Reached: the boundary value 0.3 has been interpreted as moderate.
C19_Witness == r2 = R2(30) /\ Band(interpretation) = "moderate"

\* C20: a SalesPrediction is immutable: every assignment to one of its four
\* fields fails with an error and leaves the instance as it was
\* constructed, and the four invariants hold of every instance for as long
\* as it exists.
C20_ImmutableAndValid ==
  (made.state = "done" /\ made.ok) =>
    /\ assigned.name # "" => assigned.raised = "FrozenInstanceError"
    /\ made.entity = cand
    /\ Violated(made.entity) = {}

\* C20, the part about assignment alone: it fails with the error and the
\* instance keeps the four values it was constructed with.
C20_AssignmentFails ==
  (made.state = "done" /\ made.ok) =>
    /\ assigned.name # "" => assigned.raised = "FrozenInstanceError"
    /\ made.entity = cand

Required == {"years_of_experience", "number_of_sales", "seasonal_factor"}
Entries(data) == {data[i] : i \in 1..Len(data)}
ValueOf(data, key) == (CHOOSE entry \in Entries(data) : entry[1] = key)[2]

\* C21: validate_input raises ValueError 'Missing required features' if and
\* only if one of years_of_experience, number_of_sales, seasonal_factor is
\* not a key of data, and otherwise returns one row of three values, those
\* of the three keys in that order, whatever other keys data has and in
\* whatever order its keys are.
C21_ValidateInput ==
  prepCall.op = "validate_input" =>
    LET absent == Required \ {entry[1] : entry \in Entries(arg_data)}
    IN /\ (prepCall.raised # "") <=> (absent # {})
       /\ (prepCall.raised # "") =>
            /\ prepCall.raised = "ValueError"
            /\ prepCall.message = "Missing required features"
            /\ prepCall.missing = absent
       /\ (prepCall.raised = "") =>
            /\ Len(prepCall.value) = 1
            /\ prepCall.value[1] = <<ValueOf(arg_data, "years_of_experience"),
                                     ValueOf(arg_data, "number_of_sales"),
                                     ValueOf(arg_data, "seasonal_factor")>>

\* Reached: a dict with an extra key first and the three keys in reverse
\* order has been turned into the row (1, 2, 1).
C21_Witness ==
  /\ prepCall.op = "validate_input"
  /\ arg_data = << <<"region", 2>>, <<"seasonal_factor", 1>>,
                <<"number_of_sales", 2>>, <<"years_of_experience", 1>> >>
  /\ prepCall.value = << <<1, 2, 1>> >>

\* C22: PredictionInput accepts a triple of integers if and only if the triple
\* passes the first three checks of SalesPrediction (a seasonal_factor of 0
\* is rejected by both), so a construction from an accepted triple fails
\* only with 'Predicted revenue cannot be negative', on a revenue below 0.
C22_BoundaryCoincidesWithEntity ==
  (boundary # "pending" /\ made.state = "done") =>
    /\ (boundary = "accepted") <=> (made.error \notin {MsgExperience, MsgSales, MsgSeasonal})
    /\ (boundary = "accepted" /\ ~made.ok) =>
         /\ made.error = MsgRevenue
         /\ RevenueIsNegative(cand.predicted_revenue)
    /\ cand.seasonal_factor = 0 => (boundary = "rejected" /\ ~made.ok)

\* Reached: the triple (0, 0, 0) has been rejected by PredictionInput and by
\* SalesPrediction, the latter with the seasonal factor message.
C22_Witness ==
  /\ cand.experience_months = 0 /\ cand.number_of_sales = 0 /\ cand.seasonal_factor = 0
  /\ boundary = "rejected"
  /\ made.state = "done" /\ made.error = MsgSeasonal

IsComplete(repo) ==
  repo.transformer # None /\ repo.model # None /\ repo.metadata # None

\* C23: the process-wide holder is None or a repository whose transformer,
\* model and metadata are all loaded, none of them None; once a load has
\* failed on one of the three artifacts the holder is None; and a worker
\* that is at predict or get_model_info holds a repository with all three.
C23_HolderNeverPartial ==
  /\ \A i \in 1..Len(heap) : IsComplete(heap[i])
  /\ holder # 0 =>
       /\ holder \in 1..Len(heap)
       /\ heap[holder].transformer = JoblibLoad(storage[WithSuffix(TransformerName)])
       /\ heap[holder].model = JoblibLoad(storage[WithSuffix(PredictorName)])
       /\ heap[holder].metadata = JoblibLoad(storage[WithSuffix(MetadataName)])
  /\ loadFailed => holder = 0
  /\ \A t \in Threads :
       pc[t] \in {"execute", "info"} => (ref[t] # 0 /\ IsComplete(heap[ref[t]]))

\* Reached: with the metadata file missing a load has failed, the holder is
\* None and the request that ran the load was answered with the server error.
C23_Witness ==
  /\ WithSuffix(TransformerName) \in DOMAIN storage
  /\ WithSuffix(PredictorName) \in DOMAIN storage
  /\ WithSuffix(MetadataName) \notin DOMAIN storage
  /\ loadFailed /\ holder = 0
  /\ \E t \in Threads : pc[t] = "idle" /\ resp[t].code = 500
=============================================================================
